---- MODULE Spec2Model ----
(***************************************************************************)
(* A model of sumo-tools' stepwise aggregation engine: the DataCollector   *)
(* step listener (data_collector.py) and the four accumulators it drives:  *)
(* WaitingTime and Throughput (metrics.py), FundamentalDiagram and         *)
(* TimeDistance (visualisation.py).                                        *)
(*                                                                         *)
(* Identifiers.  An edge identifier is a sequence of tokens; the tokens    *)
(* "-sink" and "-source" are the reserved suffixes, so that                *)
(* str.endswith(suffix) is "the last token is suffix".  Object references  *)
(* are strings and the string "None" is Python's None.                     *)
(***************************************************************************)
EXTENDS Integers, Sequences, FiniteSets, TLC

VARIABLES
    edge_list,              \* adapter: what traci.edge.getIDList() returns
    listeners,              \* adapter: handles of the registered step listeners
    sim,                    \* adapter: where each vehicle is in the current step
    sim_time,               \* adapter: number of simulation steps made
    pc,                     \* DataCollector: "new", "ready", "failed" (__init__ raised), "deleted"
    id,                     \* DataCollector.id
    edges,                  \* DataCollector.edges
    waiting_time,           \* DataCollector.waiting_time
    throughput,             \* DataCollector.throughput
    fundamental_diagram,    \* DataCollector.fundamental_diagram
    time_distance_diagram,  \* DataCollector.time_distance_diagram
    step_count,             \* DataCollector.step_count
    WT,                     \* the WaitingTime objects' fields
    TP,                     \* the Throughput objects' fields
    FD,                     \* the FundamentalDiagram objects' fields
    TD,                     \* the TimeDistance objects' fields
    last,                   \* the last call made: operation, arguments, result, exception
    log,                    \* history: what was passed to whom, and when
    budget                  \* the steps, attach/detach calls and direct calls still to be made

vars == <<edge_list, listeners, sim, sim_time, pc, id, edges, waiting_time, throughput,
          fundamental_diagram, time_distance_diagram, step_count, WT, TP, FD, TD, last, log,
          budget>>

adapterVars == <<edge_list, listeners, sim, sim_time>>

collectorVars == <<pc, id, edges, waiting_time, throughput, fundamental_diagram,
                   time_distance_diagram, step_count>>

accumulatorVars == <<WT, TP, FD, TD>>

(***************************************************************************)
(* Bounds of the model.                                                    *)
(***************************************************************************)
\* Simulation steps the driver makes.
MaxSteps == 2

\* Direct update calls made on accumulators in the accumulator specifications.
MaxCalls == 3

\* Length of the edge lists the adapter returns in the constructor specification.
MaxEdges == 3

\* Attach and detach calls made on the collector.
MaxOps == 2

\* The largest time passed to a direct TimeDistance update.
MaxTime == 4

\* Simulation steps and attach/detach calls in the Throughput collector
\* specification.
MaxThroughputSteps == 3

MaxThroughputOps == 3

\* Simulation steps and attach/detach calls in the TimeDistance collector
\* specification.
MaxWindowSteps == 3

MaxWindowOps == 2

\* Attach calls in the configuration specification.
MaxConfigOps == 2

\* Simulation steps and attach/detach calls in the detach specification.
MaxDetachSteps == 2

MaxDetachOps == 4

(***************************************************************************)
(* Values.                                                                 *)
(***************************************************************************)
None == "None"

True == "True"

False == "False"

\* np.NaN, the "missing" marker of a TimeDistance slot; distances are >= 0.
NaN == -1

E_a == <<"a">>

E_b == <<"b">>

E_a_sink == <<"a", "-sink">>

E_b_source == <<"b", "-source">>

\* Not on any edge / being teleported.
Off == <<"off">>

Tele == <<"tele">>

EdgeIds == {E_a, E_b, E_a_sink, E_b_source}

RealEdges == {E_a, E_b}

Vehicles == {"v1", "v2"}

\* The vehicle sets passed to direct Throughput / FundamentalDiagram updates.
CallVehicles == {"A", "B", "C"}

WaitingTimes == {"wt1", "wt2"}

Throughputs == {"tp1", "tp2"}

FundamentalDiagrams == {"fd1", "fd2"}

TimeDistances == {"td1", "td2"}

\* Optional[List[str]]
NoneList == [is_none |-> TRUE, val |-> <<>>]

Some(l) == [is_none |-> FALSE, val |-> l]

(***************************************************************************)
(* Python built-ins.                                                       *)
(***************************************************************************)
\* str.endswith
EndsWith(s, suffix) == Len(s) > 0 /\ s[Len(s)] = suffix

\* list.pop()
Pop(l) == SubSeq(l, 1, Len(l) - 1)

\* [x] * n  (the empty list when n <= 0)
ListRepeat(x, n) == [i \in 1..n |-> x]

\* l[i] = x with Python's indexing: 0-based, a negative i counts from the
\* end, anything outside -len(l) .. len(l)-1 raises IndexError.
ListSetItem(l, i, x) ==
    IF 0 <= i /\ i < Len(l)
    THEN [raised |-> None, list |-> [l EXCEPT ![i + 1] = x]]
    ELSE IF -Len(l) <= i /\ i < 0
    THEN [raised |-> None, list |-> [l EXCEPT ![Len(l) + i + 1] = x]]
    ELSE [raised |-> "IndexError", list |-> l]

\* d[k] = v on a dict
DictSet(d, k, v) == [x \in DOMAIN d \cup {k} |-> IF x = k THEN v ELSE d[x]]

EmptyDict == <<>>

(***************************************************************************)
(* metrics.py: WaitingTime                                                 *)
(***************************************************************************)
WaitingTime_init == [waiting_times |-> <<>>]

WaitingTime_update(wt, average_waiting_times) ==
    [wt EXCEPT !.waiting_times = Append(@, average_waiting_times)]

(***************************************************************************)
(* metrics.py: Throughput                                                  *)
(***************************************************************************)
Throughput_init(edge_ids) ==
    [vehicles_in_edge |-> EmptyDict, vehicles_left_count |-> EmptyDict, edge_ids |-> edge_ids]

\* A plausible slip: the vehicles that stayed instead of the vehicles that left.
VehiclesStayed(before, now) == Cardinality(before \cap now)

\* len(before.difference(now))
VehiclesLeft(before, now) == Cardinality(before \ now)

Throughput_update(tp, edge_id, vehicle_ids) ==
    LET known == edge_id \in DOMAIN tp.vehicles_in_edge
        vehicles_left_count ==
            IF known THEN VehiclesLeft(tp.vehicles_in_edge[edge_id], vehicle_ids) ELSE 0
        counts ==
            IF known THEN tp.vehicles_left_count
            ELSE DictSet(tp.vehicles_left_count, edge_id, <<>>)
    IN  [tp EXCEPT
            !.vehicles_in_edge = DictSet(tp.vehicles_in_edge, edge_id, vehicle_ids),
            !.vehicles_left_count =
                [counts EXCEPT ![edge_id] = Append(@, vehicles_left_count)]]

(***************************************************************************)
(* visualisation.py: FundamentalDiagram                                    *)
(***************************************************************************)
FundamentalDiagram_init(edge_id) ==
    [edge_id |-> edge_id,
     data |-> [speed |-> <<>>, flow |-> <<>>, vehicle_count |-> <<>>],
     vehicles_in_edge |-> {},
     edge_length |-> 0]

\* mean_speed * 3.6; the speeds of the model are multiples of 5, so it is exact.
Times3_6(x) == (x * 36) \div 10

\* A plausible slip: the flow only recorded when a vehicle left.
FlowAppendIfAny(flow, vehicles_left_count) ==
    IF vehicles_left_count > 0 THEN Append(flow, vehicles_left_count) ELSE flow

\* self.data['flow'].append(vehicles_left_count)
FlowAppend(flow, vehicles_left_count) == Append(flow, vehicles_left_count)

FundamentalDiagram_update(fd, mean_speed, vehicle_ids) ==
    LET count == Cardinality(vehicle_ids)
        vehicles_left_count == VehiclesLeft(fd.vehicles_in_edge, vehicle_ids)
    IN  [fd EXCEPT
            !.data = [speed |-> Append(fd.data.speed, Times3_6(mean_speed)),
                      vehicle_count |-> Append(fd.data.vehicle_count, count),
                      flow |-> FlowAppend(fd.data.flow, vehicles_left_count)],
            !.vehicles_in_edge = vehicle_ids]

(***************************************************************************)
(* visualisation.py: TimeDistance                                          *)
(***************************************************************************)
TimeDistance_init(route_edges, timespan) ==
    [data |-> EmptyDict,
     route_edges |-> route_edges,
     timespan |-> timespan,
     time_diff |-> timespan[2] - timespan[1],
     start_time |-> timespan[1]]

\* A plausible slip: the array sized by the window's end instead of its length.
NewSlotsToEnd(td) == ListRepeat(NaN, td.timespan[2])

\* [np.NaN]*self.time_diff
NewSlots(td) == ListRepeat(NaN, td.time_diff)

\* A plausible slip: the slot array allocated on every update, not on the first.
SlotsOfAlwaysNew(td, vehicle_id) == NewSlots(td)

\* if not vehicle_id in self.data: self.data[vehicle_id] = [np.NaN]*self.time_diff
SlotsOf(td, vehicle_id) ==
    IF vehicle_id \notin DOMAIN td.data THEN NewSlots(td) ELSE td.data[vehicle_id]

\* The object after the call and the exception the call raised (None: none).
\* An IndexError leaves the freshly allocated slot array in place.
TimeDistance_update(td, vehicle_id, distance, time) ==
    LET time_delta == time - td.start_time
        set == ListSetItem(SlotsOf(td, vehicle_id), time_delta, distance)
    IN  [raised |-> set.raised,
         obj |-> [td EXCEPT !.data = DictSet(td.data, vehicle_id, set.list)]]

(***************************************************************************)
(* Initial states.  The accumulators are constructed by the caller; the    *)
(* collector is constructed by the action DataCollector_init.              *)
(***************************************************************************)
NoCall == [op |-> "none", obj |-> None, arg |-> <<>>, result |-> None, raised |-> None]

Call(op, obj, arg, result, raised) ==
    [op |-> op, obj |-> obj, arg |-> arg, result |-> result, raised |-> raised]

InitLog ==
    [tp_calls |-> [o \in Throughputs |-> [e \in RealEdges |-> <<>>]],
     fd_calls |-> [o \in FundamentalDiagrams |-> 0],
     td_calls |-> [o \in TimeDistances |-> {}],
     tp_seen |-> [o \in Throughputs |-> [e \in RealEdges |-> <<>>]],
     unregistered |-> 0,
     steps |-> 0,
     removed |-> {}]

InitAdapter ==
    /\ listeners = {}
    /\ sim = [v \in Vehicles |-> Off]
    /\ sim_time = 0

\* Before __init__ has run the collector has no fields; these are placeholders.
InitCollector ==
    /\ pc = "new"
    /\ id = None
    /\ edges = <<>>
    /\ waiting_time = None
    /\ throughput = None
    /\ fundamental_diagram = None
    /\ time_distance_diagram = None
    /\ step_count = 0

\* WaitingTime(), Throughput() and Throughput([b]), FundamentalDiagram(a) and
\* FundamentalDiagram(b), TimeDistance((a, b), (1, 3)) and TimeDistance((a, b), (0, 2)).
InitAccumulators ==
    /\ WT = [o \in WaitingTimes |-> WaitingTime_init]
    /\ TP = [o \in Throughputs |->
                Throughput_init(IF o = "tp1" THEN NoneList ELSE Some(<<E_b>>))]
    /\ FD = [o \in FundamentalDiagrams |->
                FundamentalDiagram_init(IF o = "fd1" THEN E_a ELSE E_b)]
    /\ TD = [o \in TimeDistances |->
                TimeDistance_init(<<E_a, E_b>>, IF o = "td1" THEN <<1, 3>> ELSE <<0, 2>>)]

InitGhost ==
    /\ last = NoCall
    /\ log = InitLog

Budget(steps, ops, calls) == [steps |-> steps, ops |-> ops, calls |-> calls]

Spend(what) == budget' = [budget EXCEPT ![what] = @ - 1]

(***************************************************************************)
(* Throughput driven directly: any sequence of update calls.               *)
(***************************************************************************)
LogThroughputCall(l, o, edge_id, vehicle_ids, at) ==
    IF edge_id \in RealEdges
    THEN [l EXCEPT !.tp_calls[o][edge_id] =
                        Append(@, [vehicle_ids |-> vehicle_ids, at |-> at])]
    ELSE l

CallThroughputUpdate(o, edge_id, vehicle_ids) ==
    /\ budget.calls > 0 /\ Spend("calls")
    /\ TP' = [TP EXCEPT ![o] = Throughput_update(TP[o], edge_id, vehicle_ids)]
    /\ last' = Call("Throughput.update", o, <<edge_id, vehicle_ids>>, None, None)
    /\ log' = LogThroughputCall(log, o, edge_id, vehicle_ids, sim_time)
    /\ UNCHANGED <<adapterVars, collectorVars, WT, FD, TD>>

InitTP ==
    /\ edge_list = <<E_a, E_b>>
    /\ budget = Budget(0, 0, MaxCalls)
    /\ InitAdapter /\ InitCollector /\ InitAccumulators /\ InitGhost

NextTP ==
    \E o \in Throughputs, e \in RealEdges, vs \in SUBSET CallVehicles :
        CallThroughputUpdate(o, e, vs)

SpecTP == InitTP /\ [][NextTP]_vars

\* The departed-counts of an object for an edge ([] before the first update).
CountsOf(o, e) ==
    IF e \in DOMAIN TP[o].vehicles_left_count THEN TP[o].vehicles_left_count[e] ELSE <<>>

\* C1: for every Throughput object and edge, one count is appended per update
\* call; the first is 0 whatever set was passed, and each later one is the
\* number of vehicles of the previous call's set that are not in this call's.
C1_DepartedCounts ==
    \A o \in Throughputs, e \in RealEdges :
        LET calls == log.tp_calls[o][e]
            counts == CountsOf(o, e)
        IN  /\ Len(counts) = Len(calls)
            /\ \A i \in 1..Len(calls) :
                  counts[i] = IF i = 1 THEN 0
                              ELSE Cardinality(calls[i-1].vehicle_ids \ calls[i].vehicle_ids)

\* The sets {A,B}, {B,C}, {} were passed for an edge and gave [0, 1, 2].
C1_Witness ==
    \E o \in Throughputs, e \in RealEdges :
        /\ Len(log.tp_calls[o][e]) = 3
        /\ [i \in 1..3 |-> log.tp_calls[o][e][i].vehicle_ids] = <<{"A", "B"}, {"B", "C"}, {}>>
        /\ CountsOf(o, e) = <<0, 1, 2>>

(***************************************************************************)
(* FundamentalDiagram driven directly: any sequence of update calls.       *)
(***************************************************************************)
MeanSpeeds == {0, 10}

CallFundamentalDiagramUpdate(o, mean_speed, vehicle_ids) ==
    /\ budget.calls > 0 /\ Spend("calls")
    /\ FD' = [FD EXCEPT ![o] = FundamentalDiagram_update(FD[o], mean_speed, vehicle_ids)]
    /\ last' = Call("FundamentalDiagram.update", o, <<mean_speed, vehicle_ids>>, None, None)
    /\ log' = [log EXCEPT !.fd_calls[o] = @ + 1]
    /\ UNCHANGED <<adapterVars, collectorVars, WT, TP, TD>>

InitFD == InitTP

NextFD ==
    \E o \in FundamentalDiagrams, mean_speed \in MeanSpeeds, vs \in SUBSET CallVehicles :
        CallFundamentalDiagramUpdate(o, mean_speed, vs)

SpecFD == InitFD /\ [][NextFD]_vars

\* C3: in every reachable state, the 'speed', 'flow' and 'vehicle_count'
\* sequences of a FundamentalDiagram have the same length, the number of
\* update calls made on it.
C3_ParallelSequences ==
    \A o \in FundamentalDiagrams :
        /\ Len(FD[o].data.speed) = log.fd_calls[o]
        /\ Len(FD[o].data.flow) = log.fd_calls[o]
        /\ Len(FD[o].data.vehicle_count) = log.fd_calls[o]

\* Three updates were made on one object, the last with no vehicle leaving.
C3_Witness ==
    \E o \in FundamentalDiagrams :
        /\ log.fd_calls[o] = 3
        /\ Len(FD[o].data.flow) = 3
        /\ FD[o].data.flow[3] = 0
        /\ FD[o].data.vehicle_count[3] = 2

(***************************************************************************)
(* TimeDistance driven directly: any sequence of update calls, for any     *)
(* window (also an empty or inverted one) and any time (also outside the   *)
(* window, where Python's indexing decides what happens).                  *)
(***************************************************************************)
Windows == {<<1, 4>>, <<0, 2>>, <<2, 2>>, <<3, 1>>}

Times == 0..MaxTime

Distances == {3, 8}

CallTimeDistanceUpdate(o, vehicle_id, distance, time) ==
    LET r == TimeDistance_update(TD[o], vehicle_id, distance, time)
    IN  /\ budget.calls > 0 /\ Spend("calls")
        /\ TD' = [TD EXCEPT ![o] = r.obj]
        /\ last' = Call("TimeDistance.update", o, <<vehicle_id, distance, time>>,
                         None, r.raised)
        /\ log' = [log EXCEPT !.td_calls[o] = @ \cup {<<vehicle_id, time>>}]
        /\ UNCHANGED <<adapterVars, collectorVars, WT, TP, FD>>

InitTD ==
    /\ edge_list = <<E_a, E_b>>
    /\ budget = Budget(0, 0, MaxCalls)
    /\ InitAdapter /\ InitCollector /\ InitGhost
    /\ WT = [o \in WaitingTimes |-> WaitingTime_init]
    /\ TP = [o \in Throughputs |-> Throughput_init(NoneList)]
    /\ FD = [o \in FundamentalDiagrams |-> FundamentalDiagram_init(E_a)]
    /\ \E w \in Windows :
          TD = [o \in TimeDistances |->
                   TimeDistance_init(<<E_a, E_b>>, IF o = "td1" THEN w ELSE <<0, 2>>)]

NextTD ==
    \E o \in {"td1"}, v \in Vehicles, d \in Distances, t \in Times :
        CallTimeDistanceUpdate(o, v, d, t)

SpecTD == InitTD /\ [][NextTD]_vars

WindowLength(o) == TD[o].timespan[2] - TD[o].timespan[1]

\* C5: in every reachable state, every tracked vehicle's slot array has the
\* window length end - start fixed at construction.
C5_SlotArrayLength ==
    \A o \in TimeDistances :
        \A v \in DOMAIN TD[o].data : Len(TD[o].data[v]) = WindowLength(o)

\* The call just made on o: its vehicle, distance, time and slot offset.
UpdateOf(o, l) ==
    [made |-> l.op = "TimeDistance.update" /\ l.obj = o,
     vehicle |-> l.arg[1],
     distance |-> l.arg[2],
     time |-> l.arg[3],
     k |-> l.arg[3] - TD[o].timespan[1]]

\* C6: a vehicle first passed to update at time start + k, 0 <= k < end - start,
\* has afterwards a slot array of the window's length with the distance at
\* index k and the missing marker at every other index; nothing is raised.
C6_FirstObservation ==
    [][\A o \in TimeDistances :
          LET u == UpdateOf(o, last')
          IN  (/\ u.made
               /\ u.vehicle \notin DOMAIN TD[o].data
               /\ 0 <= u.k /\ u.k < WindowLength(o))
              => /\ last'.raised = None
                 /\ u.vehicle \in DOMAIN TD'[o].data
                 /\ TD'[o].data[u.vehicle] =
                       [i \in 1..WindowLength(o) |-> IF i = u.k + 1 THEN u.distance ELSE NaN]
      ]_vars

\* A vehicle first seen in the middle of the window [1, 4).
C6_Witness ==
    /\ TD["td1"].timespan = <<1, 4>>
    /\ last.op = "TimeDistance.update" /\ last.obj = "td1"
    /\ last.arg = <<"v1", 8, 2>>
    /\ TD["td1"].data["v1"] = <<NaN, 8, NaN>>

\* Whether the call u addresses slot i (1-based) of an array of length n,
\* Python's negative offsets included.
Addresses(u, n, i) ==
    \/ 0 <= u.k /\ u.k < n /\ i = u.k + 1
    \/ -n <= u.k /\ u.k < 0 /\ i = n + u.k + 1

\* C7: an update made again for a (vehicle, time) pair already passed writes
\* the new distance into the slot at index time - start and changes nothing
\* else: same vehicles, same array lengths, every other slot of every
\* vehicle as before, every other object as before; and when it repeats the
\* call just made, distance included, the state is the one after that call.
C7_Overwrite ==
    [][\A o \in TimeDistances :
          LET u == UpdateOf(o, last')
          IN  (u.made /\ <<u.vehicle, u.time>> \in log.td_calls[o])
              => /\ DOMAIN TD'[o].data = DOMAIN TD[o].data
                 /\ \A v \in DOMAIN TD[o].data :
                       /\ Len(TD'[o].data[v]) = Len(TD[o].data[v])
                       /\ \A i \in 1..Len(TD[o].data[v]) :
                             IF v = u.vehicle /\ Addresses(u, Len(TD[o].data[v]), i)
                             THEN TD'[o].data[v][i] = u.distance
                             ELSE TD'[o].data[v][i] = TD[o].data[v][i]
                 /\ (0 <= u.k /\ u.k < WindowLength(o))
                       => TD'[o].data[u.vehicle][u.k + 1] = u.distance
                 /\ \A o2 \in TimeDistances \ {o} : TD'[o2] = TD[o2]
                 /\ (last.op = last'.op /\ last.obj = o /\ last.arg = last'.arg)
                       => TD' = TD
      ]_vars

\* (v1, 2) was passed to update twice: the second distance, 8, replaced the
\* first, 3, and the slot of time 1 is as it was.
C7_Witness ==
    /\ TD["td1"].timespan = <<1, 4>>
    /\ last.op = "TimeDistance.update" /\ last.obj = "td1"
    /\ last.arg = <<"v1", 8, 2>>
    /\ budget.calls = 0
    /\ Cardinality(log.td_calls["td1"]) = 2
    /\ TD["td1"].data["v1"] = <<3, 8, NaN>>

(***************************************************************************)
(* The simulation adapter (traci / libsumo), as far as the collector       *)
(* queries it.  A snapshot maps each vehicle to the edge it is on, to Off  *)
(* or to Tele.  Speed, accumulated waiting time and route are attributes   *)
(* of the vehicle; its odometer is read when the collector asks for it.    *)
(***************************************************************************)
Handle == "h0"

Snapshots == [Vehicles -> RealEdges \cup {Off, Tele}]

\* traci.lane.getIDList(), with getEdgeID and getLength: edge b has no lane.
Lanes ==
    << [id |-> "a_0", edge |-> E_a, length |-> 100],
       [id |-> "a_1", edge |-> E_a, length |-> 120] >>

\* traci.edge.getLastStepVehicleIDs
LastStepVehicleIDs(s, edge_id) == {v \in Vehicles : s[v] = edge_id}

\* traci.edge.getLastStepVehicleNumber
LastStepVehicleNumber(s, edge_id) == Cardinality(LastStepVehicleIDs(s, edge_id))

\* traci.vehicle.getIDList, traci.vehicle.getTeleportingIDList
VehicleIDList(s) == {v \in Vehicles : s[v] # Off}

TeleportingIDList(s) == {v \in Vehicles : s[v] = Tele}

\* traci.vehicle.getSpeed, in m/s
Speed(v) == IF v = "v1" THEN 10 ELSE 0

VehicleWaitingTime(v) == IF v = "v1" THEN 6 ELSE 0

\* traci.vehicle.getRoute
Route(v) == IF v = "v1" THEN <<E_a, E_b>> ELSE <<E_a>>

RECURSIVE SumOver(_, _)
SumOver(S, which) ==
    IF S = {} THEN 0
    ELSE LET v == CHOOSE x \in S : TRUE
         IN  (IF which = "speed" THEN Speed(v) ELSE VehicleWaitingTime(v))
             + SumOver(S \ {v}, which)

\* traci.edge.getWaitingTime: the sum over the vehicles on the edge
EdgeWaitingTime(s, edge_id) == SumOver(LastStepVehicleIDs(s, edge_id), "wait")

(***************************************************************************)
(* data_collector.py: DataCollector                                        *)
(***************************************************************************)
IsBoundary(edge_id) == EndsWith(edge_id, "-sink") \/ EndsWith(edge_id, "-source")

\* while (edges[-1].endswith('-sink') or edges[-1].endswith('-source')): edges.pop()
\* edges[-1] on the empty list raises IndexError.
RECURSIVE TrimEdges(_)
TrimEdges(l) ==
    IF Len(l) = 0 THEN [raised |-> "IndexError", edges |-> l]
    ELSE IF IsBoundary(l[Len(l)]) THEN TrimEdges(Pop(l))
    ELSE [raised |-> None, edges |-> l]

\* __init__: registers the listener first, then reads and trims the edge
\* list; when that raises, the fields after `id` are never set and the
\* listener stays registered.
DataCollector_init ==
    LET r == TrimEdges(edge_list)
    IN  /\ pc = "new"
        /\ listeners' = listeners \cup {Handle}
        /\ id' = Handle
        /\ IF r.raised = None
           THEN /\ pc' = "ready"
                /\ edges' = r.edges
                /\ waiting_time' = None
                /\ throughput' = None
                /\ fundamental_diagram' = None
                /\ time_distance_diagram' = None
                /\ step_count' = 0
           ELSE /\ pc' = "failed"
                /\ UNCHANGED <<edges, waiting_time, throughput, fundamental_diagram,
                               time_distance_diagram, step_count>>
        /\ last' = Call("DataCollector.__init__", None, <<>>, None, r.raised)
        /\ UNCHANGED <<edge_list, sim, sim_time, accumulatorVars, log, budget>>

\* A plausible slip: the handle forgotten without unregistering.
StopForgetsToUnregister == listeners

\* traci.removeStepListener(self.id)
RemoveStepListener == listeners \ {id}

\* A plausible slip: the handle kept after unregistering.
StopKeepsId ==
    IF id # None
    THEN /\ listeners' = RemoveStepListener
         /\ id' = id
         /\ log' = [log EXCEPT !.unregistered = @ + 1]
    ELSE UNCHANGED <<listeners, id, log>>

\* The body of stop_collecting, shared with __del__.
StopCollectingBody ==
    IF id # None
    THEN /\ listeners' = RemoveStepListener
         /\ id' = None
         /\ log' = [log EXCEPT !.unregistered = @ + 1]
    ELSE UNCHANGED <<listeners, id, log>>

stop_collecting ==
    /\ pc = "ready"
    /\ StopCollectingBody
    /\ last' = Call("stop_collecting", None, <<>>, None, None)
    /\ UNCHANGED <<edge_list, sim, sim_time, pc, edges, waiting_time, throughput,
                   fundamental_diagram, time_distance_diagram, step_count, accumulatorVars,
                   budget>>

\* __del__: the object is gone afterwards.
del ==
    /\ pc = "ready"
    /\ StopCollectingBody
    /\ pc' = "deleted"
    /\ last' = Call("__del__", None, <<>>, None, None)
    /\ UNCHANGED <<edge_list, sim, sim_time, edges, waiting_time, throughput,
                   fundamental_diagram, time_distance_diagram, step_count, accumulatorVars,
                   budget>>

\* initialised()
initialised == id # None

(***************************************************************************)
(* Attaching and detaching accumulators.                                   *)
(***************************************************************************)
\* The caller holds a constructed collector.
CanOperate == pc = "ready" /\ budget.ops > 0 /\ Spend("ops")

\* History: the accumulators a remove call returned True for and that were
\* not attached since.
Attached(l, o) == [l EXCEPT !.removed = @ \ {o}]

Detached(l, o, result) ==
    IF result = True /\ o # None THEN [l EXCEPT !.removed = @ \cup {o}] ELSE l

\* A plausible slip: an occupied slot kept.
add_waiting_time_if_empty(o) ==
    /\ CanOperate
    /\ waiting_time' = IF waiting_time = None THEN o ELSE waiting_time
    /\ log' = Attached(log, o)
    /\ last' = Call("add_waiting_time", o, <<>>, None, None)
    /\ UNCHANGED <<adapterVars, pc, id, edges, throughput, fundamental_diagram,
                   time_distance_diagram, step_count, accumulatorVars>>

add_waiting_time(o) ==
    /\ CanOperate
    /\ waiting_time' = o
    /\ log' = Attached(log, o)
    /\ last' = Call("add_waiting_time", o, <<>>, None, None)
    /\ UNCHANGED <<adapterVars, pc, id, edges, throughput, fundamental_diagram,
                   time_distance_diagram, step_count, accumulatorVars>>

add_throughput(o) ==
    /\ CanOperate
    /\ throughput' = o
    /\ log' = Attached(log, o)
    /\ last' = Call("add_throughput", o, <<>>, None, None)
    /\ UNCHANGED <<adapterVars, pc, id, edges, waiting_time, fundamental_diagram,
                   time_distance_diagram, step_count, accumulatorVars>>

\* The length of the first lane of Lanes[i..] that belongs to the edge, or
\* the length the object already has when there is none.
RECURSIVE FirstLaneLength(_, _, _)
FirstLaneLength(i, edge_id, otherwise) ==
    IF i > Len(Lanes) THEN otherwise
    ELSE IF Lanes[i].edge = edge_id THEN Lanes[i].length
    ELSE FirstLaneLength(i + 1, edge_id, otherwise)

add_fundamental_diagram(o) ==
    /\ CanOperate
    /\ fundamental_diagram' = o
    /\ FD' = [FD EXCEPT ![o].edge_length =
                 FirstLaneLength(1, FD[o].edge_id, FD[o].edge_length)]
    /\ log' = Attached(log, o)
    /\ last' = Call("add_fundamental_diagram", o, <<>>, None, None)
    /\ UNCHANGED <<adapterVars, pc, id, edges, waiting_time, throughput,
                   time_distance_diagram, step_count, WT, TP, TD>>

add_time_distance_diagram(o) ==
    /\ CanOperate
    /\ time_distance_diagram' = o
    /\ log' = Attached(log, o)
    /\ last' = Call("add_time_distance_diagram", o, <<>>, None, None)
    /\ UNCHANGED <<adapterVars, pc, id, edges, waiting_time, throughput,
                   fundamental_diagram, step_count, accumulatorVars>>

\* A plausible slip: the slot cleared whatever accumulator is passed.
RemovedAlways(slot, o) == [slot |-> None, result |-> True]

\* A plausible slip: True returned with the slot left as it is.
RemovedButKept(slot, o) ==
    IF slot = o THEN [slot |-> slot, result |-> True]
    ELSE [slot |-> slot, result |-> False]

\* if self.<slot> == o: self.<slot> = None; return True
\* return False
Removed(slot, o) ==
    IF slot = o THEN [slot |-> None, result |-> True]
    ELSE [slot |-> slot, result |-> False]

remove_waiting_time(o) ==
    /\ CanOperate
    /\ waiting_time' = Removed(waiting_time, o).slot
    /\ log' = Detached(log, o, Removed(waiting_time, o).result)
    /\ last' = Call("remove_waiting_time", o, <<>>, Removed(waiting_time, o).result, None)
    /\ UNCHANGED <<adapterVars, pc, id, edges, throughput, fundamental_diagram,
                   time_distance_diagram, step_count, accumulatorVars>>

remove_throughput(o) ==
    /\ CanOperate
    /\ throughput' = Removed(throughput, o).slot
    /\ log' = Detached(log, o, Removed(throughput, o).result)
    /\ last' = Call("remove_throughput", o, <<>>, Removed(throughput, o).result, None)
    /\ UNCHANGED <<adapterVars, pc, id, edges, waiting_time, fundamental_diagram,
                   time_distance_diagram, step_count, accumulatorVars>>

remove_fundamental_diagram(o) ==
    /\ CanOperate
    /\ fundamental_diagram' = Removed(fundamental_diagram, o).slot
    /\ log' = Detached(log, o, Removed(fundamental_diagram, o).result)
    /\ last' = Call("remove_fundamental_diagram", o, <<>>,
                     Removed(fundamental_diagram, o).result, None)
    /\ UNCHANGED <<adapterVars, pc, id, edges, waiting_time, throughput,
                   time_distance_diagram, step_count, accumulatorVars>>

remove_time_distance_diagram(o) ==
    /\ CanOperate
    /\ time_distance_diagram' = Removed(time_distance_diagram, o).slot
    /\ log' = Detached(log, o, Removed(time_distance_diagram, o).result)
    /\ last' = Call("remove_time_distance_diagram", o, <<>>,
                     Removed(time_distance_diagram, o).result, None)
    /\ UNCHANGED <<adapterVars, pc, id, edges, waiting_time, throughput,
                   fundamental_diagram, step_count, accumulatorVars>>

(***************************************************************************)
(* DataCollector.step, section by section.  s is the adapter's snapshot of *)
(* the step.                                                               *)
(***************************************************************************)
Range(l) == {l[i] : i \in 1..Len(l)}

\* A plausible slip: the edge's total recorded, not divided by the count.
TotalWaitTimes(s) == [e \in Range(edges) |-> EdgeWaitingTime(s, e)]

\* waiting_time/vehicle_count if vehicle_count != 0 else 0, for every tracked
\* edge; the totals of the model divide exactly.
AverageWaitTimes(s) ==
    [e \in Range(edges) |->
        IF LastStepVehicleNumber(s, e) # 0
        THEN EdgeWaitingTime(s, e) \div LastStepVehicleNumber(s, e)
        ELSE 0]

\* self.throughput.edge_ids if self.throughput.edge_ids != None else self.edges
EdgeIdsToCollect(tp) == IF ~tp.edge_ids.is_none THEN tp.edge_ids.val ELSE edges

\* for edge_id in edge_ids_to_collect: self.throughput.update(edge_id, set(vehicle_ids))
RECURSIVE CollectThroughput(_, _, _, _)
CollectThroughput(tp, edge_ids, i, s) ==
    IF i > Len(edge_ids) THEN tp
    ELSE CollectThroughput(
             Throughput_update(tp, edge_ids[i], LastStepVehicleIDs(s, edge_ids[i])),
             edge_ids, i + 1, s)

\* sum(getSpeed(id) for id in vehicle_ids)/vehicle_count, or 0 without vehicles
MeanVelocity(vehicle_ids) ==
    IF Cardinality(vehicle_ids) # 0
    THEN SumOver(vehicle_ids, "speed") \div Cardinality(vehicle_ids)
    ELSE 0

\* A plausible slip: only the end of the window tested.
InWindowAnyStart(td, count) == td.timespan[2] > count

\* timespan[0] <= step_count and timespan[1] > step_count
InWindow(td, count) == td.timespan[1] <= count /\ td.timespan[2] > count

\* A plausible slip: only the origin of the route tested.
OnRouteByOrigin(td, s) ==
    {v \in VehicleIDList(s) \ TeleportingIDList(s) : Route(v)[1] = td.route_edges[1]}

\* The vehicles step reads the distance of: listed, not teleporting, with a
\* route from route_edges[0] to route_edges[1].
OnRoute(td, s) ==
    {v \in VehicleIDList(s) \ TeleportingIDList(s) :
        /\ Route(v)[1] = td.route_edges[1]
        /\ Route(v)[Len(Route(v))] = td.route_edges[2]}

\* for vehicle in vehicles: self.time_distance_diagram.update(vehicle, distance, step_count)
\* r is [raised, obj]; an exception ends the loop.
RECURSIVE CollectTimeDistance(_, _, _, _)
CollectTimeDistance(r, S, distance, count) ==
    IF S = {} \/ r.raised # None THEN r
    ELSE LET v == CHOOSE x \in S : TRUE
         IN  CollectTimeDistance(TimeDistance_update(r.obj, v, distance[v], count),
                                 S \ {v}, distance, count)

\* The vehicles whose odometer the step reads.
DistanceQueries(s) ==
    IF time_distance_diagram # None /\ InWindow(TD[time_distance_diagram], step_count)
    THEN OnRoute(TD[time_distance_diagram], s)
    ELSE {}

\* A plausible slip: the counter only advanced while a window is being recorded.
IncrementInWindow(count) ==
    IF time_distance_diagram # None /\ InWindow(TD[time_distance_diagram], count)
    THEN count + 1 ELSE count

\* self.step_count += 1
Increment(count) == count + 1

\* What one call of step leaves behind: the accumulators, the counter and
\* the exception raised (None: step returned True).
StepResult(s, distance) ==
    LET wt == IF waiting_time # None
              THEN [WT EXCEPT ![waiting_time] = WaitingTime_update(@, AverageWaitTimes(s))]
              ELSE WT
        tp == IF throughput # None
              THEN [TP EXCEPT ![throughput] =
                       CollectThroughput(@, EdgeIdsToCollect(TP[throughput]), 1, s)]
              ELSE TP
        fd == IF fundamental_diagram # None
              THEN LET vehicle_ids ==
                           LastStepVehicleIDs(s, FD[fundamental_diagram].edge_id)
                   IN  [FD EXCEPT ![fundamental_diagram] =
                           FundamentalDiagram_update(@, MeanVelocity(vehicle_ids), vehicle_ids)]
              ELSE FD
        td == IF time_distance_diagram # None
                 /\ InWindow(TD[time_distance_diagram], step_count)
              THEN CollectTimeDistance(
                       [raised |-> None, obj |-> TD[time_distance_diagram]],
                       OnRoute(TD[time_distance_diagram], s), distance, step_count)
              ELSE [raised |-> None, obj |-> <<>>]
    IN  [WT |-> wt, TP |-> tp, FD |-> fd,
         TD |-> IF DistanceQueries(s) # {}
                THEN [TD EXCEPT ![time_distance_diagram] = td.obj] ELSE TD,
         step_count |-> IF td.raised = None THEN Increment(step_count) ELSE step_count,
         raised |-> td.raised]

\* What the step passed to whom.
StepLog(s) ==
    LET l1 == IF throughput # None
              THEN [log EXCEPT !.tp_seen[throughput] =
                       [e \in RealEdges |->
                           IF e \in Range(EdgeIdsToCollect(TP[throughput]))
                           THEN << [vehicle_ids |-> LastStepVehicleIDs(s, e),
                                    at |-> sim_time + 1] >>
                           ELSE @[e]]]
              ELSE log
        l2 == IF fundamental_diagram # None
              THEN [l1 EXCEPT !.fd_calls[fundamental_diagram] = @ + 1]
              ELSE l1
        l3 == [l2 EXCEPT !.steps = @ + 1]
    IN  IF DistanceQueries(s) # {}
        THEN [l3 EXCEPT !.td_calls[time_distance_diagram] =
                 @ \cup {<<v, step_count>> : v \in DistanceQueries(s)}]
        ELSE l3

(***************************************************************************)
(* The driver advances the simulation: traci moves the vehicles and then   *)
(* calls step on every registered listener.                                *)
(***************************************************************************)
SimulationStepNotify(s) ==
    /\ budget.steps > 0 /\ Spend("steps")
    /\ Handle \in listeners
    /\ pc = "ready"
    /\ sim' = s
    /\ sim_time' = sim_time + 1
    /\ \E distance \in [DistanceQueries(s) -> Distances] :
          LET r == StepResult(s, distance)
          IN  /\ WT' = r.WT
              /\ TP' = r.TP
              /\ FD' = r.FD
              /\ TD' = r.TD
              /\ step_count' = r.step_count
              /\ last' = Call("step", None, <<>>,
                              IF r.raised = None THEN True ELSE None, r.raised)
    /\ log' = StepLog(s)
    /\ UNCHANGED <<edge_list, listeners, pc, id, edges, waiting_time, throughput,
                   fundamental_diagram, time_distance_diagram>>

\* No listener is registered: nothing of the collector runs.
SimulationStepIdle(s) ==
    /\ budget.steps > 0 /\ Spend("steps")
    /\ Handle \notin listeners
    /\ sim' = s
    /\ sim_time' = sim_time + 1
    /\ last' = Call("simulationStep", None, <<>>, None, None)
    /\ UNCHANGED <<edge_list, listeners, collectorVars, accumulatorVars, log>>

\* The listener of a collector whose __init__ raised is still registered:
\* step reads self.waiting_time, which was never set.
SimulationStepBroken(s) ==
    /\ budget.steps > 0 /\ Spend("steps")
    /\ Handle \in listeners
    /\ pc = "failed"
    /\ sim' = s
    /\ sim_time' = sim_time + 1
    /\ last' = Call("step", None, <<>>, None, "AttributeError")
    /\ UNCHANGED <<edge_list, listeners, collectorVars, accumulatorVars, log>>

(***************************************************************************)
(* The collector in a simulation.                                          *)
(***************************************************************************)
EdgeLists == {<<E_a, E_b, E_a_sink, E_b_source>>, <<E_a_sink>>}

Init ==
    /\ edge_list \in EdgeLists
    /\ budget = Budget(MaxSteps, MaxOps, 0)
    /\ InitAdapter /\ InitCollector /\ InitAccumulators /\ InitGhost

Attach ==
    \/ \E o \in WaitingTimes : add_waiting_time(o)
    \/ \E o \in Throughputs : add_throughput(o)
    \/ \E o \in FundamentalDiagrams : add_fundamental_diagram(o)
    \/ \E o \in TimeDistances : add_time_distance_diagram(o)

Detach ==
    \/ \E o \in WaitingTimes \cup {None} : remove_waiting_time(o)
    \/ \E o \in Throughputs \cup {None} : remove_throughput(o)
    \/ \E o \in FundamentalDiagrams \cup {None} : remove_fundamental_diagram(o)
    \/ \E o \in TimeDistances \cup {None} : remove_time_distance_diagram(o)

\* The snapshots the driver produces in the collector specification: the
\* road empty, both vehicles on edge a, and one moved on to edge b while the
\* other is being teleported.
Scenes ==
    { [v \in Vehicles |-> Off],
      [v \in Vehicles |-> E_a],
      [v \in Vehicles |-> IF v = "v1" THEN E_b ELSE Tele] }

Advance(scenes) ==
    \E s \in scenes :
        \/ SimulationStepNotify(s)
        \/ SimulationStepIdle(s)
        \/ SimulationStepBroken(s)

Next ==
    \/ DataCollector_init
    \/ stop_collecting
    \/ del
    \/ Attach
    \/ Detach
    \/ Advance(Scenes)

Spec == Init /\ [][Next]_vars

(***************************************************************************)
(* The collector with Throughput accumulators only, over more steps and    *)
(* with a snapshot in which one vehicle has moved on and one has stayed.   *)
(***************************************************************************)
ThroughputScenes == Scenes \cup {[v \in Vehicles |-> IF v = "v1" THEN E_b ELSE E_a]}

InitThroughput ==
    /\ edge_list \in EdgeLists
    /\ budget = Budget(MaxThroughputSteps, MaxThroughputOps, 0)
    /\ InitAdapter /\ InitCollector /\ InitAccumulators /\ InitGhost

NextThroughput ==
    \/ DataCollector_init
    \/ \E o \in Throughputs : add_throughput(o)
    \/ \E o \in Throughputs \cup {None} : remove_throughput(o)
    \/ Advance(ThroughputScenes)

SpecThroughput == InitThroughput /\ [][NextThroughput]_vars

(***************************************************************************)
(* The constructor over every edge list.                                   *)
(***************************************************************************)
RECURSIVE SeqsUpTo(_, _)
SeqsUpTo(S, n) ==
    IF n = 0 THEN {<<>>}
    ELSE LET shorter == SeqsUpTo(S, n - 1)
         IN  shorter \cup {Append(l, x) : l \in shorter, x \in S}

\* A network has at least one edge.
InitCtor ==
    /\ edge_list \in SeqsUpTo(EdgeIds, MaxEdges) \ {<<>>}
    /\ budget = Budget(1, 0, 0)
    /\ InitAdapter /\ InitCollector /\ InitAccumulators /\ InitGhost

NextCtor ==
    \/ DataCollector_init
    \/ stop_collecting
    \/ del
    \/ Advance(Scenes)

SpecCtor == InitCtor /\ [][NextCtor]_vars

\* The list without its trailing boundary edges: up to its last edge that is
\* not one.
WithoutTrailingBoundary(l) ==
    LET keep == {i \in 1..Len(l) : ~IsBoundary(l[i])}
    IN  IF keep = {} THEN <<>>
        ELSE SubSeq(l, 1, CHOOSE i \in keep : \A j \in keep : j <= i)

\* C10: whatever edge list the adapter returns, construction completes
\* without error and the tracked edges are that list without its trailing
\* '-sink' / '-source' identifiers, from then on.
C10_TrackedEdges ==
    pc # "new" =>
        /\ pc # "failed"
        /\ edges = WithoutTrailingBoundary(edge_list)

(***************************************************************************)
(* Properties of the collector.                                            *)
(***************************************************************************)
\* C2: once stop_collecting has been called, a simulation advance changes
\* neither any accumulator nor the step counter.
C2_NoWorkAfterStop ==
    [][(pc \in {"ready", "deleted"} /\ id = None /\ sim_time' # sim_time)
          => /\ WT' = WT /\ TP' = TP /\ FD' = FD /\ TD' = TD
             /\ step_count' = step_count
      ]_vars

\* The driver advanced a stopped collector that had collected one step with
\* accumulators attached.
C2_Witness ==
    /\ pc = "ready" /\ id = None
    /\ last.op = "simulationStep"
    /\ sim_time = 2 /\ step_count = 1
    /\ throughput # None /\ fundamental_diagram # None
    /\ Len(FD[fundamental_diagram].data.flow) = 1

\* The throughput section of the step just made updated edge e of the
\* attached accumulator, which had seen e before.
LaterObservation(e) ==
    /\ last'.op = "step" /\ sim_time' = sim_time + 1
    /\ throughput # None
    /\ e \in Range(EdgeIdsToCollect(TP[throughput]))
    /\ e \in DOMAIN TP[throughput].vehicles_in_edge

NewestCount(e) ==
    LET counts == TP'[throughput].vehicles_left_count[e] IN counts[Len(counts)]

\* C4 as stated: every departed-count recorded at a step other than the
\* edge's first observation is the number of vehicles the adapter reported
\* on the edge at the previous step and does not report at this step.
C4_DepartedSincePreviousStep ==
    [][\A e \in RealEdges :
          LaterObservation(e)
              => NewestCount(e) = Cardinality(LastStepVehicleIDs(sim, e)
                                                 \ LastStepVehicleIDs(sim', e))
      ]_vars

\* C4 amended: the count is the number of vehicles the adapter reported on
\* the edge at the accumulator's previous update for the edge and does not
\* report at this step; the previous update is the previous step whenever
\* the accumulator was attached at it.
C4_DepartedSincePreviousObservation ==
    [][\A e \in RealEdges :
          LaterObservation(e)
              => LET seen == log.tp_seen[throughput][e]
                 IN  /\ Len(seen) = 1
                     /\ NewestCount(e) = Cardinality(seen[1].vehicle_ids
                                                        \ LastStepVehicleIDs(sim', e))
                     /\ seen[1].at = sim_time
                           => NewestCount(e) = Cardinality(LastStepVehicleIDs(sim, e)
                                                              \ LastStepVehicleIDs(sim', e))
      ]_vars

\* tp1 saw edge a at step 1, was replaced by tp2 for step 2 and attached again
\* for step 3: it counted the two vehicles that left since step 1.
C4_Witness ==
    /\ last.op = "step" /\ throughput = "tp1" /\ sim_time = 3
    /\ Len(log.tp_seen["tp2"][E_b]) = 1
    /\ log.tp_seen["tp2"][E_b][1].at = 2
    /\ E_a \in DOMAIN TP["tp1"].vehicles_left_count
    /\ TP["tp1"].vehicles_left_count[E_a] = <<0, 2>>
    /\ LastStepVehicleIDs(sim, E_a) = {}

\* C8: a remove call with an accumulator that is not the one in that kind's
\* slot (an empty slot included) returns False, raises nothing and leaves
\* all four slots as they were.
C8_RemoveMismatch ==
    [][\A k \in 1..4 :
          LET op == <<"remove_waiting_time", "remove_throughput",
                      "remove_fundamental_diagram", "remove_time_distance_diagram">>[k]
              slot == <<waiting_time, throughput, fundamental_diagram,
                        time_distance_diagram>>[k]
          IN  (last'.op = op /\ last'.obj # None /\ last'.obj # slot)
              => /\ last'.result = False
                 /\ last'.raised = None
                 /\ waiting_time' = waiting_time
                 /\ throughput' = throughput
                 /\ fundamental_diagram' = fundamental_diagram
                 /\ time_distance_diagram' = time_distance_diagram
      ]_vars

\* wt2 was passed to remove_waiting_time while wt1 is attached.
C8_Witness ==
    /\ last.op = "remove_waiting_time" /\ last.obj = "wt2"
    /\ last.result = False
    /\ waiting_time = "wt1"

\* C9: the first stop_collecting (or __del__) unregisters the listener, once,
\* and makes initialised() False; a later one unregisters nothing and
\* changes no state; so the listener is unregistered at most once.
C9_StopIdempotent ==
    [][(last'.op \in {"stop_collecting", "__del__"} /\ pc = "ready")
          => /\ ~initialised'
             /\ Handle \notin listeners'
             /\ IF initialised
                THEN /\ Handle \in listeners
                     /\ log'.unregistered = log.unregistered + 1
                     /\ log'.unregistered = 1
                ELSE /\ log' = log
                     /\ UNCHANGED <<adapterVars, id, edges, waiting_time, throughput,
                                    fundamental_diagram, time_distance_diagram,
                                    step_count, accumulatorVars>>
      ]_vars

\* stop_collecting was called, and then __del__ ran: one unregistration.
C9_Witness ==
    /\ pc = "deleted" /\ last.op = "__del__"
    /\ log.unregistered = 1
    /\ id = None /\ listeners = {}
    /\ step_count > 0

\* C11: every invocation of the step callback returns True and raises
\* nothing, whatever the snapshot and whatever is attached (the adapter
\* answers every query in this specification).
C11_StepNeverRaises ==
    last.op = "step" => (last.raised = None /\ last.result = True)

\* C12: a step with a WaitingTime attached appends one snapshot whose keys
\* are the tracked edges; an edge without vehicles at that step has 0 and an
\* edge with n > 0 vehicles has the value that, times n, is the adapter's
\* waiting-time total of the edge; the earlier snapshots stay as they are.
C12_AverageWaitingTimes ==
    [][(last'.op = "step" /\ pc = "ready" /\ waiting_time # None)
          => LET before == WT[waiting_time].waiting_times
                 after == WT'[waiting_time].waiting_times
                 snapshot == after[Len(after)]
             IN  /\ Len(after) = Len(before) + 1
                 /\ SubSeq(after, 1, Len(before)) = before
                 /\ DOMAIN snapshot = Range(edges)
                 /\ \A e \in DOMAIN snapshot :
                       LET n == LastStepVehicleNumber(sim', e)
                       IN  IF n = 0 THEN snapshot[e] = 0
                           ELSE snapshot[e] * n = EdgeWaitingTime(sim', e)
      ]_vars

\* Two vehicles on edge a with a total of 6, none on edge b: 3 and 0.
C12_Witness ==
    /\ last.op = "step" /\ waiting_time # None
    /\ LastStepVehicleNumber(sim, E_a) = 2
    /\ EdgeWaitingTime(sim, E_a) = 6
    /\ LET snapshots == WT[waiting_time].waiting_times
       IN  /\ Len(snapshots) > 0
           /\ snapshots[Len(snapshots)] = (E_a :> 3) @@ (E_b :> 0)

Section(at) ==
    CASE at = "waiting_time" -> 1
      [] at = "throughput" -> 2
      [] at = "fundamental_diagram" -> 3
      [] at = "time_distance_diagram" -> 4

\* Where a query of the step over snapshot s can fail: the section, for a
\* Throughput the position k of the edge whose query fails, for a
\* TimeDistance the vehicles already updated when a later query fails.
Failures(s) ==
    (IF waiting_time # None
     THEN {[at |-> "waiting_time", k |-> 0, done |-> {}]} ELSE {})
    \cup
    (IF throughput # None
     THEN {[at |-> "throughput", k |-> k, done |-> {}] :
              k \in 1..Len(EdgeIdsToCollect(TP[throughput]))}
     ELSE {})
    \cup
    (IF fundamental_diagram # None
     THEN {[at |-> "fundamental_diagram", k |-> 0, done |-> {}]} ELSE {})
    \cup
    (IF time_distance_diagram # None /\ InWindow(TD[time_distance_diagram], step_count)
     THEN {[at |-> "time_distance_diagram", k |-> 0, done |-> d] :
              d \in {d \in SUBSET DistanceQueries(s) :
                        \/ d = {}
                        \/ (VehicleIDList(s) \ TeleportingIDList(s)) \ d # {}}}
     ELSE {})

\* What a call of step that ends in the failure leaves behind.
AbortedStepResult(s, distance, fail) ==
    LET complete == StepResult(s, distance)
        edge_ids == EdgeIdsToCollect(TP[throughput])
    IN  [WT |-> IF Section(fail.at) > 1 THEN complete.WT ELSE WT,
         TP |-> IF Section(fail.at) > 2 THEN complete.TP
                ELSE IF Section(fail.at) = 2
                THEN [TP EXCEPT ![throughput] =
                         CollectThroughput(@, SubSeq(edge_ids, 1, fail.k - 1), 1, s)]
                ELSE TP,
         FD |-> IF Section(fail.at) > 3 THEN complete.FD ELSE FD,
         TD |-> IF Section(fail.at) = 4 /\ fail.done # {}
                THEN [TD EXCEPT ![time_distance_diagram] =
                         CollectTimeDistance([raised |-> None, obj |-> @], fail.done,
                                             distance, step_count).obj]
                ELSE TD,
         step_count |-> step_count,
         raised |-> "TraCIException"]

SimulationStepAdapterFails(s) ==
    /\ budget.steps > 0 /\ Spend("steps")
    /\ Handle \in listeners
    /\ pc = "ready"
    /\ sim' = s
    /\ sim_time' = sim_time + 1
    /\ \E distance \in [DistanceQueries(s) -> Distances], fail \in Failures(s) :
          LET r == AbortedStepResult(s, distance, fail)
          IN  /\ WT' = r.WT
              /\ TP' = r.TP
              /\ FD' = r.FD
              /\ TD' = r.TD
              /\ step_count' = r.step_count
              /\ last' = Call("step", None, <<fail.at>>, None, r.raised)
    /\ log' = [log EXCEPT !.steps = @ + 1]
    /\ UNCHANGED <<edge_list, listeners, pc, id, edges, waiting_time, throughput,
                   fundamental_diagram, time_distance_diagram>>

NextFailure ==
    \/ DataCollector_init
    \/ Attach
    \/ Advance(Scenes)
    \/ \E s \in Scenes : SimulationStepAdapterFails(s)

SpecFailure == Init /\ [][NextFailure]_vars

\* C14: a step callback ended by an adapter failure raises it to the caller
\* and leaves every accumulator either as it was before the step or as the
\* complete step would have left it.
C14_NoPartialStep ==
    [][(last'.op = "step" /\ last'.raised = "TraCIException")
          => \E distance \in [DistanceQueries(sim') -> Distances] :
                LET complete == StepResult(sim', distance)
                IN  /\ \A o \in WaitingTimes : WT'[o] \in {WT[o], complete.WT[o]}
                    /\ \A o \in Throughputs : TP'[o] \in {TP[o], complete.TP[o]}
                    /\ \A o \in FundamentalDiagrams : FD'[o] \in {FD[o], complete.FD[o]}
                    /\ \A o \in TimeDistances : TD'[o] \in {TD[o], complete.TD[o]}
      ]_vars

(***************************************************************************)
(* The collector with TimeDistance accumulators, over every window and     *)
(* over routes that the vehicles' routes match fully, in the origin only   *)
(* or in the destination only.                                             *)
(***************************************************************************)
RouteEdges == {<<E_a, E_b>>, <<E_a, E_a>>, <<E_b, E_b>>}

InitDiagrams ==
    /\ edge_list \in EdgeLists
    /\ InitAdapter /\ InitCollector /\ InitGhost
    /\ WT = [o \in WaitingTimes |-> WaitingTime_init]
    /\ TP = [o \in Throughputs |-> Throughput_init(NoneList)]
    /\ FD = [o \in FundamentalDiagrams |->
                FundamentalDiagram_init(IF o = "fd1" THEN E_a ELSE E_b)]
    /\ \E w \in Windows, r \in RouteEdges :
          TD = [o \in TimeDistances |->
                   IF o = "td1" THEN TimeDistance_init(r, w)
                   ELSE TimeDistance_init(<<E_a, E_b>>, <<0, 2>>)]

InitWindow ==
    /\ budget = Budget(MaxWindowSteps, MaxWindowOps, 0)
    /\ InitDiagrams

NextWindow ==
    \/ DataCollector_init
    \/ \E o \in TimeDistances : add_time_distance_diagram(o)
    \/ \E o \in TimeDistances \cup {None} : remove_time_distance_diagram(o)
    \/ Advance(Scenes)

SpecWindow == InitWindow /\ [][NextWindow]_vars

(***************************************************************************)
(* Attaching the diagrams, whatever their configuration.                   *)
(***************************************************************************)
InitConfig ==
    /\ budget = Budget(1, MaxConfigOps, 0)
    /\ InitDiagrams

NextConfig ==
    \/ DataCollector_init
    \/ \E o \in FundamentalDiagrams : add_fundamental_diagram(o)
    \/ \E o \in TimeDistances : add_time_distance_diagram(o)
    \/ Advance(Scenes)

SpecConfig == InitConfig /\ [][NextConfig]_vars

\* C15: attaching a TimeDistance whose window is empty or inverted, or a
\* FundamentalDiagram whose edge has no lane, raises an error (the object
\* exists, so its construction raised none).
C15_ConfigurationErrorsReported ==
    [][/\ (/\ last'.op = "add_time_distance_diagram"
           /\ TD[last'.obj].timespan[2] <= TD[last'.obj].timespan[1])
             => last'.raised # None
       /\ (/\ last'.op = "add_fundamental_diagram"
           /\ \A i \in 1..Len(Lanes) : Lanes[i].edge # FD[last'.obj].edge_id)
             => last'.raised # None
      ]_vars

\* The slot array of vehicle v in a TimeDistance object's data, all missing
\* markers (of the length n) when the vehicle has none.
SlotsBefore(data, v, n) == IF v \in DOMAIN data THEN data[v] ELSE [i \in 1..n |-> NaN]

\* C18: a step writes a TimeDistance slot only of the attached object, only
\* when start <= step_count < end, and only the slot of index
\* step_count - start, which lies in 0 .. end - start - 1; in such a step
\* every listed, not teleporting vehicle on the route gets that slot
\* written; outside the window no TimeDistance object changes.
C18_WindowGate ==
    [][(last'.op = "step" /\ pc = "ready")
          => \A o \in TimeDistances :
                LET start == TD[o].timespan[1]
                    end == TD[o].timespan[2]
                    open == o = time_distance_diagram
                            /\ start <= step_count /\ step_count < end
                    index == step_count - start
                IN  /\ ~open => TD'[o] = TD[o]
                    /\ DOMAIN TD[o].data \subseteq DOMAIN TD'[o].data
                    /\ \A v \in DOMAIN TD'[o].data :
                          LET after == TD'[o].data[v]
                              before == SlotsBefore(TD[o].data, v, Len(after))
                          IN  /\ Len(after) = Len(before)
                              /\ \A i \in 1..Len(after) :
                                    after[i] # before[i]
                                        => /\ i = index + 1
                                           /\ 0 <= index /\ index <= end - start - 1
                    /\ open =>
                          \A v \in Vehicles :
                              (/\ sim'[v] \notin {Off, Tele}
                               /\ Route(v)[1] = TD[o].route_edges[1]
                               /\ Route(v)[Len(Route(v))] = TD[o].route_edges[2])
                                 => /\ v \in DOMAIN TD'[o].data
                                    /\ TD'[o].data[v][index + 1] \in Distances
      ]_vars

\* The window [0, 2): v1 was written at steps 0 and 1, and the step of
\* count 2, with v1 on the road and the object attached, wrote nothing.
C18_Witness ==
    /\ last.op = "step" /\ step_count = 3
    /\ time_distance_diagram = "td1"
    /\ TD["td1"].timespan = <<0, 2>>
    /\ TD["td1"].route_edges = <<E_a, E_b>>
    /\ sim["v1"] = E_b
    /\ "v1" \in DOMAIN TD["td1"].data
    /\ TD["td1"].data["v1"] = <<3, 8>>

\* C19: a step writes a slot of a vehicle, or gives it a slot array, only
\* if at that step the vehicle is listed, is not teleporting, and its route
\* starts at the object's origin edge and ends at its destination edge.
C19_TrackedVehicles ==
    [][(last'.op = "step" /\ pc = "ready")
          => \A o \in TimeDistances, v \in Vehicles :
                (\/ v \in DOMAIN TD'[o].data /\ v \notin DOMAIN TD[o].data
                 \/ /\ v \in DOMAIN TD'[o].data /\ v \in DOMAIN TD[o].data
                    /\ TD'[o].data[v] # TD[o].data[v])
                    => /\ sim'[v] # Off
                       /\ sim'[v] # Tele
                       /\ Route(v)[1] = TD[o].route_edges[1]
                       /\ Route(v)[Len(Route(v))] = TD[o].route_edges[2]
      ]_vars

\* Route (a, a), window [0, 2): v2 (route a) was written at step 0 and not
\* at step 1, when it was teleporting; v1 (route a, b) on the road at both
\* steps never got a slot array.
C19_Witness ==
    /\ last.op = "step" /\ step_count = 2
    /\ time_distance_diagram = "td1"
    /\ TD["td1"].timespan = <<0, 2>>
    /\ TD["td1"].route_edges = <<E_a, E_a>>
    /\ sim["v2"] = Tele /\ sim["v1"] = E_b
    /\ DOMAIN TD["td1"].data = {"v2"}
    /\ TD["td1"].data["v2"][1] \in Distances
    /\ TD["td1"].data["v2"][2] = NaN

(***************************************************************************)
(* A FundamentalDiagram and a Throughput driven side by side: every call   *)
(* passes one vehicle set of an edge to the Throughput and to the          *)
(* FundamentalDiagram of that edge.                                        *)
(***************************************************************************)
CallSideBySide(fd, tp, mean_speed, vehicle_ids) ==
    /\ budget.calls > 0 /\ Spend("calls")
    /\ FD' = [FD EXCEPT ![fd] = FundamentalDiagram_update(FD[fd], mean_speed, vehicle_ids)]
    /\ TP' = [TP EXCEPT ![tp] = Throughput_update(TP[tp], FD[fd].edge_id, vehicle_ids)]
    /\ last' = Call("update", fd, <<tp, mean_speed, vehicle_ids>>, None, None)
    /\ log' = LogThroughputCall([log EXCEPT !.fd_calls[fd] = @ + 1],
                                tp, FD[fd].edge_id, vehicle_ids, sim_time)
    /\ UNCHANGED <<adapterVars, collectorVars, WT, TD>>

NextFlow ==
    \E fd \in FundamentalDiagrams, mean_speed \in MeanSpeeds, vs \in SUBSET CallVehicles :
        CallSideBySide(fd, "tp1", mean_speed, vs)

SpecFlow == InitTP /\ [][NextFlow]_vars

\* C16: in every reachable state the flow sequence of a FundamentalDiagram
\* is, index by index from the first, the departed-count sequence the
\* Throughput driven with the same sets has for the diagram's edge.
C16_FlowIsDepartedCount ==
    \A fd \in FundamentalDiagrams :
        FD[fd].data.flow = CountsOf("tp1", FD[fd].edge_id)

\* Edge a was driven with {A,B}, {B,C}, {}: both sequences are [0, 1, 2].
C16_Witness ==
    /\ Len(log.tp_calls["tp1"][E_a]) = 3
    /\ [i \in 1..3 |-> log.tp_calls["tp1"][E_a][i].vehicle_ids] = <<{"A", "B"}, {"B", "C"}, {}>>
    /\ FD["fd1"].data.flow = <<0, 1, 2>>
    /\ CountsOf("tp1", E_a) = <<0, 1, 2>>

(***************************************************************************)
(* Properties over the four kinds: kind 1 is the WaitingTime, 2 the        *)
(* Throughput, 3 the FundamentalDiagram and 4 the TimeDistance.            *)
(***************************************************************************)
AddOps ==
    <<"add_waiting_time", "add_throughput", "add_fundamental_diagram",
      "add_time_distance_diagram">>

RemoveOps ==
    <<"remove_waiting_time", "remove_throughput", "remove_fundamental_diagram",
      "remove_time_distance_diagram">>

ObjectsOf == <<WaitingTimes, Throughputs, FundamentalDiagrams, TimeDistances>>

\* C17: an add call on an occupied slot stores the accumulator passed,
\* leaves the state of every other accumulator (the one replaced included)
\* and the three other slots as they were; and a step changes no
\* accumulator that is not in its kind's slot, while the WaitingTime,
\* Throughput and FundamentalDiagram in a slot get the step's data.
C17_AttachReplaces ==
    [][/\ \A k \in 1..4 :
             LET slot == <<waiting_time, throughput, fundamental_diagram,
                           time_distance_diagram>>
                 slotAfter == <<waiting_time', throughput', fundamental_diagram',
                                time_distance_diagram'>>
                 state == <<WT, TP, FD, TD>>
                 stateAfter == <<WT', TP', FD', TD'>>
             IN  /\ (last'.op = AddOps[k] /\ slot[k] # None)
                       => /\ slotAfter[k] = last'.obj
                          /\ \A j \in 1..4 \ {k} :
                                slotAfter[j] = slot[j] /\ stateAfter[j] = state[j]
                          /\ \A p \in ObjectsOf[k] \ {last'.obj} :
                                stateAfter[k][p] = state[k][p]
                 /\ (last'.op = "step" /\ pc = "ready")
                       => \A p \in ObjectsOf[k] \ {slot[k]} :
                             stateAfter[k][p] = state[k][p]
       /\ (last'.op = "step" /\ pc = "ready")
             => /\ waiting_time # None
                   => Len(WT'[waiting_time].waiting_times)
                         = Len(WT[waiting_time].waiting_times) + 1
                /\ throughput # None => TP'[throughput] # TP[throughput]
                /\ fundamental_diagram # None
                   => Len(FD'[fundamental_diagram].data.flow)
                         = Len(FD[fundamental_diagram].data.flow) + 1
      ]_vars

\* wt1 collected step 1 and was replaced by wt2, which collected step 2:
\* each holds one snapshot.
C17_Witness ==
    /\ last.op = "step" /\ step_count = 2
    /\ waiting_time = "wt2"
    /\ Len(WT["wt1"].waiting_times) = 1
    /\ Len(WT["wt2"].waiting_times) = 1

(***************************************************************************)
(* Attaching, detaching and detaching again: one accumulator of each kind, *)
(* over enough calls for an accumulator to be attached, removed and passed *)
(* to remove once more while another kind stays attached.                  *)
(***************************************************************************)
InitDetach ==
    /\ edge_list \in EdgeLists
    /\ budget = Budget(MaxDetachSteps, MaxDetachOps, 0)
    /\ InitAdapter /\ InitCollector /\ InitAccumulators /\ InitGhost

NextDetach ==
    \/ DataCollector_init
    \/ add_waiting_time("wt1")
    \/ add_throughput("tp1")
    \/ add_fundamental_diagram("fd1")
    \/ add_time_distance_diagram("td2")
    \/ remove_waiting_time("wt1")
    \/ remove_throughput("tp1")
    \/ remove_fundamental_diagram("fd1")
    \/ remove_time_distance_diagram("td2")
    \/ Advance(Scenes)

SpecDetach == InitDetach /\ [][NextDetach]_vars

\* C20: a remove call that returns True leaves its kind's slot empty; from
\* then on, until the accumulator is attached again, every step leaves it
\* as it is, while the WaitingTime, Throughput and FundamentalDiagram that
\* are attached get the step's data; and a remove call made again for it
\* returns False and changes no slot.
C20_DetachedIsFrozen ==
    [][/\ \A k \in 1..4 :
             LET slot == <<waiting_time, throughput, fundamental_diagram,
                           time_distance_diagram>>
                 slotAfter == <<waiting_time', throughput', fundamental_diagram',
                                time_distance_diagram'>>
                 state == <<WT, TP, FD, TD>>
                 stateAfter == <<WT', TP', FD', TD'>>
             IN  /\ (last'.op = RemoveOps[k] /\ last'.obj # None /\ last'.result = True)
                       => /\ slot[k] = last'.obj
                          /\ slotAfter[k] = None
                          /\ last'.obj \in log'.removed
                 /\ (last'.op = RemoveOps[k] /\ last'.obj \in log.removed)
                       => /\ last'.result = False
                          /\ slotAfter = slot
                          /\ stateAfter = state
                 /\ (last'.op = "step" /\ pc = "ready")
                       => \A o \in ObjectsOf[k] \cap log.removed :
                             /\ slot[k] # o
                             /\ stateAfter[k][o] = state[k][o]
       /\ (last'.op = "step" /\ pc = "ready")
             => /\ waiting_time # None
                   => Len(WT'[waiting_time].waiting_times)
                         = Len(WT[waiting_time].waiting_times) + 1
                /\ throughput # None => TP'[throughput] # TP[throughput]
                /\ fundamental_diagram # None
                   => Len(FD'[fundamental_diagram].data.flow)
                         = Len(FD[fundamental_diagram].data.flow) + 1
      ]_vars

\* tp1 and wt1 collected step 1, tp1 was removed (True), wt1 alone collected
\* step 2, and tp1 was passed to remove_throughput again: False.
C20_Witness ==
    /\ last.op = "remove_throughput" /\ last.obj = "tp1" /\ last.result = False
    /\ "tp1" \in log.removed
    /\ throughput = None
    /\ step_count = 2
    /\ CountsOf("tp1", E_a) = <<0>>
    /\ waiting_time = "wt1"
    /\ Len(WT["wt1"].waiting_times) = 2

====
